---- MODULE Spec2Model ----
(***************************************************************************)
(* A model of MCPClient (src/src/MCPClient.ts): the facade over the MCP    *)
(* SDK client, its paginated fetch helper, its request-options adapter,    *)
(* its (declared) notification events and its transport bookkeeping.       *)
(*                                                                         *)
(* JavaScript values are modelled as follows.                              *)
(*   - a string or `undefined`: a string, with Undefined for `undefined`;  *)
(*   - an object: the set of its <<key, value>> properties, so that an     *)
(*     absent property and two differently named properties stay apart;    *)
(*   - an optional object: the empty set (undefined) or a singleton;       *)
(*   - an array: a sequence.                                               *)
(* An async method is split at its awaits: the action that calls it runs   *)
(* up to the first await, the collaborator settles the awaited promise in  *)
(* an action of its own, and the continuation runs in a further action.    *)
(***************************************************************************)
EXTENDS Naturals, Sequences, FiniteSets, TLC

\* ------------------------------------------------------------------ bounds

\* The longest page sequence a modelled server holds.
MaxPages == 3

\* The most transports a handle creates (connect calls).
MaxTransports == 3

\* The most progress notifications that arrive during one call.
MaxNotifications == 2

\* ------------------------------------------------------------------ values

Undefined == "undefined"

\* Errors the SDK client can reject a request with.
Errors == {"MethodNotFound", "RequestTimeout"}

\* Errors a handshake or the closing of a transport can fail with.
TransportErrors == {"ECONNREFUSED", "ECONNRESET"}

NoError == "none"

\* Optional objects.
None == {}

Some(obj) == {obj}

TheValue(opt) == CHOOSE obj \in opt : TRUE

\* obj[key] in JavaScript: the value of the property, undefined when absent.
Get(obj, key) ==
    IF \E p \in obj : p[1] = key
    THEN (CHOOSE p \in obj : p[1] = key)[2]
    ELSE Undefined

\* obj[key] = value in JavaScript, on a copy.
Put(obj, key, value) == {p \in obj : p[1] # key} \cup {<<key, value>>}

Keys(obj) == {p[1] : p \in obj}

\* The truthiness of a `string | undefined`.
Truthy(v) == v # Undefined /\ v # ""

\* ------------------------------------------------------ request options

\* RequestOptions values a caller passes: one with only a timeout, one with
\* every field.
RequestOptionsValues ==
    { {<<"timeout", "5000">>},
      {<<"onProgress", "callback">>, <<"signal", "abortSignal">>,
       <<"timeout", "5000">>} }

\* options?.requestOptions of a facade call.
RequestOptionsChoices == {None} \cup {Some(ro) : ro \in RequestOptionsValues}

transformRequestOptions(requestOptions) ==
    { <<"onprogress", Get(requestOptions, "onProgress")>>,
      <<"signal", Get(requestOptions, "signal")>>,
      <<"timeout", Get(requestOptions, "timeout")>> }

\* requestOptions ? transformRequestOptions(requestOptions) : undefined
AdaptedOptions(requestOptions) ==
    IF requestOptions # None
    THEN Some(transformRequestOptions(TheValue(requestOptions)))
    ELSE None

\* ------------------------------------------------------ the server's pages

\* The tools of one page, in the order the server lists them.
ItemLists == {<<>>, <<"add", "sub">>, <<"mul">>}

\* nextCursor of a response: absent, empty, or an opaque token.
Cursors == {Undefined, "", "c1", "c2"}

\* What client.request settles with for one page: a decoded response, or an error
\* (transport failure, timeout, schema validation failure).
PageResponses ==
    [tools : ItemLists, nextCursor : Cursors, content : {Undefined}, error : {NoError}]
        \cup [tools : {<<>>}, nextCursor : {Undefined}, content : {Undefined},
              error : Errors]

\* What a delegated call other than a page request settles with: a result with
\* the given content, or an error.
Result(content) ==
    [tools |-> <<>>, nextCursor |-> Undefined, content |-> content, error |-> NoError]

Failure(e) ==
    [tools |-> <<>>, nextCursor |-> Undefined, content |-> Undefined, error |-> e]

\* The page sequences of at most n pages.
PageSequences(n) == UNION {[1..m -> PageResponses] : m \in 1..n}

\* Three kinds of page (one that continues, one that ends, one that fails), and
\* the servers of one or two such pages that the fetch reads to the end.
SessionPageSequences ==
    LET continues == [tools |-> <<"add", "sub">>, nextCursor |-> "c1",
                      content |-> Undefined, error |-> NoError]
        kinds == { continues,
                   [tools |-> <<"mul">>, nextCursor |-> Undefined,
                    content |-> Undefined, error |-> NoError],
                   Failure("RequestTimeout") }
    IN  {ps \in UNION {[1..m -> kinds] : m \in 1..2} :
            \A i \in 1..(Len(ps) - 1) : ps[i] = continues}

\* ------------------------------------------------------------------ state

VARIABLES
    \* The handle.
    transports,     \* this.transports: the transports pushed, in order
    created,        \* the number of SSEClientTransport objects constructed
    link,           \* per transport: "connecting", "open", "failed", "closed"
    lifecycle,      \* "Unconnected", "Connected", "Closed"
    \* The connect call in flight, or the last one.
    cpc,            \* "idle", "await", "resume", "resolved", "rejected"
    sseUrl,         \* its sseUrl argument
    handshake,      \* what client.connect(transport) settled with
    connectPromise, \* the promise connect returned
    \* The other facade call in flight, or the last one.
    call,           \* the facade method called and its arguments
    pc,             \* "idle", "await", "resume", "resolved", "rejected"
    pages,          \* the server: the responses to the 1st, 2nd, ... tools/list request
    requestParams,  \* fetchAllPages' requestParams argument
    requestOptions, \* fetchAllPages' requestOptions argument
    allItems,       \* fetchAllPages' accumulator
    cursor,         \* fetchAllPages' cursor
    requests,       \* the delegated calls the facade call has issued, in order
    responses,      \* what those calls settled with, in order
    promise,        \* the promise the facade call returned
    inbound,        \* the progress notifications the SDK client received during the call
    emitted         \* the "notification" events the handle emitted during the call

handleVars == <<transports, created, link, lifecycle>>

connectVars == <<cpc, sseUrl, handshake, connectPromise>>

callVars ==
    <<call, pc, pages, requestParams, requestOptions, allItems, cursor, requests,
      responses, promise, inbound, emitted>>

vars == <<handleVars, connectVars, callVars>>

Pending == [state |-> "pending", value |-> <<>>, reason |-> NoError]

Resolved(v) == [state |-> "resolved", value |-> v, reason |-> NoError]

Rejected(e) == [state |-> "rejected", value |-> <<>>, reason |-> e]

NoPromise == [state |-> "none", value |-> <<>>, reason |-> NoError]

\* A facade call: the method, its argument (a tool name, a logging level), the
\* result schema and request options given, and the length of this.transports
\* when it was made.
Call(op, arg, schema, ro) ==
    [op |-> op, arg |-> arg, resultSchema |-> schema, requestOptions |-> ro,
     size |-> Len(transports)]

\* A delegated call: its target (0: the SDK client; i: the i-th transport
\* created), its method and its arguments.
Delegated(target, method, params, schema, options) ==
    [target |-> target, method |-> method, params |-> params, schema |-> schema,
     options |-> options]

\* The caller awaits each of its calls other than connect before the next.
CallerReady == pc \in {"idle", "resolved", "rejected"}

\* const response = await client.request(...): the value the await yields.
LastResponse == responses[Len(responses)]

\* A facade call starts: it has issued its first delegated call and awaits it.
Begin(c, first) ==
    /\ CallerReady
    /\ call' = c
    /\ requests' = <<first>>
    /\ responses' = <<>>
    /\ promise' = Pending
    /\ pc' = "await"
    /\ allItems' = <<>>
    /\ cursor' = Undefined
    /\ inbound' = <<>>
    /\ emitted' = <<>>

\* The fetchAllPages arguments and the server's pages, outside getTools.
NoFetch ==
    /\ pages' = <<>>
    /\ requestParams' = [method |-> "", params |-> None]
    /\ requestOptions' = None

\* --------------------------------------------------------- fetchAllPages

\* A slip: the cursor is never added to the cloned parameters.
BuildParams_NoCursor(rp, c) ==
    IF rp.params # None THEN TheValue(rp.params) ELSE {}

\* const params = { ...(requestParams.params || {}) }; if (cursor) params.cursor = cursor
BuildParams(rp, c) ==
    LET clone == IF rp.params # None THEN TheValue(rp.params) ELSE {}
    IN  IF Truthy(c) THEN Put(clone, "cursor", c) ELSE clone

\* The arguments of one client.request call of the loop.
PageRequest(rp, c, ro) ==
    Delegated(0, rp.method, BuildParams(rp, c), "ListToolsResultSchema",
              AdaptedOptions(ro))

\* (result) => result.tools
getItems(resp) == resp.tools

\* A slip: allItems.unshift(...getItems(response)).
PushItems_Unshift(all, resp) == getItems(resp) \o all

\* allItems.push(...getItems(response))
PushItems(all, resp) == all \o getItems(resp)

\* A slip: } while (cursor !== undefined), which goes on after an empty cursor.
LoopContinues_NotUndefined(c) == c # Undefined

\* } while (cursor)
LoopContinues(c) == Truthy(c)

\* getTools(options) against a server holding the pages ps: fetchAllPages runs
\* up to its first await.
GetTools(ro, ps) ==
    /\ Begin(Call("getTools", Undefined, Undefined, ro),
             PageRequest([method |-> "tools/list", params |-> None], Undefined, ro))
    /\ pages' = ps
    /\ requestParams' = [method |-> "tools/list", params |-> None]
    /\ requestOptions' = ro
    /\ UNCHANGED <<handleVars, connectVars>>

\* The SDK client settles the awaited request with the server's next page.
RequestSettles ==
    /\ call.op = "getTools"
    /\ pc = "await"
    /\ Len(requests) <= Len(pages)
    /\ responses' = Append(responses, pages[Len(requests)])
    /\ pc' = "resume"
    /\ UNCHANGED <<call, pages, requestParams, requestOptions, allItems, cursor,
                   requests, promise, inbound, emitted>>
    /\ UNCHANGED <<handleVars, connectVars>>

\* A slip: the failure is caught and the items gathered so far are returned.
FetchThrows_ReturnsPartial ==
    /\ call.op = "getTools"
    /\ pc = "resume"
    /\ LastResponse.error # NoError
    /\ promise' = Resolved(allItems)
    /\ pc' = "resolved"
    /\ UNCHANGED <<call, pages, requestParams, requestOptions, allItems, cursor,
                   requests, responses, inbound, emitted>>
    /\ UNCHANGED <<handleVars, connectVars>>

\* The awaited request rejected: the error leaves fetchAllPages and getTools.
FetchThrows ==
    /\ call.op = "getTools"
    /\ pc = "resume"
    /\ LastResponse.error # NoError
    /\ promise' = Rejected(LastResponse.error)
    /\ pc' = "rejected"
    /\ UNCHANGED <<call, pages, requestParams, requestOptions, allItems, cursor,
                   requests, responses, inbound, emitted>>
    /\ UNCHANGED <<handleVars, connectVars>>

\* The awaited request resolved: the rest of the loop body, and the loop test.
FetchContinues ==
    /\ call.op = "getTools"
    /\ pc = "resume"
    /\ LastResponse.error = NoError
    /\ allItems' = PushItems(allItems, LastResponse)
    /\ cursor' = LastResponse.nextCursor
    /\ IF LoopContinues(cursor')
       THEN /\ requests' =
                   Append(requests, PageRequest(requestParams, cursor', requestOptions))
            /\ pc' = "await"
            /\ UNCHANGED promise
       ELSE /\ promise' = Resolved(allItems')
            /\ pc' = "resolved"
            /\ UNCHANGED requests
    /\ UNCHANGED <<call, pages, requestParams, requestOptions, responses, inbound,
                   emitted>>
    /\ UNCHANGED <<handleVars, connectVars>>

\* ------------------------------------------- ping, callTool, setLoggingLevel

ToolNames == {"add", "missing"}

LoggingLevels == {"debug", "error"}

\* options?.resultSchema of callTool: none, or a schema of the caller's.
ResultSchemas == {Undefined, "customSchema"}

\* What the SDK client settles the delegated call of c with. The server knows
\* the tool "add" only, and answers a call of any other with MethodNotFound.
Settlements(c) ==
    IF c.op = "callTool" /\ c.arg = "missing"
    THEN {Failure("MethodNotFound")}
    ELSE {Result(IF c.op = "callTool" THEN "3" ELSE "{}")}
             \cup {Failure(e) : e \in Errors}

\* The third argument of callTool's delegated call.
CallToolOptions(ro) == AdaptedOptions(ro)

\* The argument of ping's delegated call: options?.requestOptions, as given.
PingOptions(ro) == ro

\* ping(options), up to its await.
Ping(ro) ==
    /\ Begin(Call("ping", Undefined, Undefined, ro),
             Delegated(0, "ping", {}, "EmptyResultSchema", PingOptions(ro)))
    /\ NoFetch
    /\ UNCHANGED <<handleVars, connectVars>>

\* callTool(invocation, options), up to its await.
CallTool(name, schema, ro) ==
    /\ Begin(Call("callTool", name, schema, ro),
             Delegated(0, "tools/call",
                       {<<"name", name>>, <<"arguments", "{a: 1, b: 2}">>},
                       schema, CallToolOptions(ro)))
    /\ NoFetch
    /\ UNCHANGED <<handleVars, connectVars>>

\* setLoggingLevel(level), up to its await.
SetLoggingLevel(level) ==
    /\ Begin(Call("setLoggingLevel", level, Undefined, None),
             Delegated(0, "logging/setLevel", {<<"level", level>>},
                       "EmptyResultSchema", None))
    /\ NoFetch
    /\ UNCHANGED <<handleVars, connectVars>>

\* The SDK client settles the awaited ping, tool call or level setting.
CallSettles ==
    /\ call.op \in {"ping", "callTool", "setLoggingLevel"}
    /\ pc = "await"
    /\ \E outcome \in Settlements(call) : responses' = Append(responses, outcome)
    /\ pc' = "resume"
    /\ UNCHANGED <<call, pages, requestParams, requestOptions, allItems, cursor,
                   requests, promise, inbound, emitted>>
    /\ UNCHANGED <<handleVars, connectVars>>

\* The facade call of method op returns v after its await.
Returns(op, v) ==
    /\ call.op = op
    /\ pc = "resume"
    /\ LastResponse.error = NoError
    /\ promise' = Resolved(v)
    /\ pc' = "resolved"
    /\ UNCHANGED <<call, pages, requestParams, requestOptions, allItems, cursor,
                   requests, responses, inbound, emitted>>
    /\ UNCHANGED <<handleVars, connectVars>>

\* A slip: the rejection is caught and the delegated call is made once more.
Throws_Retries(op) ==
    /\ call.op = op
    /\ pc = "resume"
    /\ LastResponse.error # NoError
    /\ requests' = Append(requests, requests[Len(requests)])
    /\ pc' = "await"
    /\ UNCHANGED <<call, pages, requestParams, requestOptions, allItems, cursor,
                   responses, promise, inbound, emitted>>
    /\ UNCHANGED <<handleVars, connectVars>>

\* The await of the facade call of method op throws: the call rejects with
\* what the delegated call rejected with.
Throws(op) ==
    /\ call.op = op
    /\ pc = "resume"
    /\ LastResponse.error # NoError
    /\ promise' = Rejected(LastResponse.error)
    /\ pc' = "rejected"
    /\ UNCHANGED <<call, pages, requestParams, requestOptions, allItems, cursor,
                   requests, responses, inbound, emitted>>
    /\ UNCHANGED <<handleVars, connectVars>>

PingReturns == Returns("ping", "null")

PingThrows == Throws("ping")

CallToolReturns == Returns("callTool", LastResponse.content)

CallToolThrows == Throws("callTool")

SetLoggingLevelReturns == Returns("setLoggingLevel", Undefined)

SetLoggingLevelThrows == Throws("setLoggingLevel")

\* ----------------------------------------------------------- notifications

\* The notifications/progress messages of a request.
ProgressMessages == [progressToken : {1}, progress : {50, 100}, total : {100}]

\* The notification methods the constructor registers a handler for on the
\* SDK client: the constructor builds the client and registers none.
ConstructorSubscriptions == {}

\* The "notification" events the handle emits when the SDK client receives n.
ReEmitted(n) ==
    IF "notifications/progress" \in ConstructorSubscriptions
    THEN <<[progressToken |-> n.progressToken, progress |-> n.progress,
            total |-> n.total, type |-> "progress"]>>
    ELSE <<>>

\* The server reports progress on the call of a tool it runs, when the call
\* asked for it.
ProgressArrives(n) ==
    /\ call.op = "callTool"
    /\ call.arg = "add"
    /\ pc = "await"
    /\ requests[1].options # None
    /\ Get(TheValue(requests[1].options), "onprogress") # Undefined
    /\ Len(inbound) < MaxNotifications
    /\ inbound' = Append(inbound, n)
    /\ emitted' = emitted \o ReEmitted(n)
    /\ UNCHANGED <<call, pc, pages, requestParams, requestOptions, allItems, cursor,
                   requests, responses, promise>>
    /\ UNCHANGED <<handleVars, connectVars>>

\* ------------------------------------------------------------------ connect

\* sseUrl values: one that new URL() parses, and one it throws on.
SseUrls == {"http://localhost:8080/sse", "not a url"}

ParsesAsUrl(url) == url = "http://localhost:8080/sse"

\* The caller awaits each connect before the next.
ConnectReady == cpc \in {"idle", "resolved", "rejected"}

\* The transport of the connect call in flight: the last one created.
transport == created

\* connect({ sseUrl }), up to its await; new URL(sseUrl) throws on a malformed
\* address, before any transport exists.
Connect(url) ==
    /\ ConnectReady
    /\ created < MaxTransports
    /\ sseUrl' = url
    /\ handshake' = "pending"
    /\ IF ParsesAsUrl(url)
       THEN /\ created' = created + 1
            /\ transports' = Append(transports, created')
            /\ link' = Append(link, "connecting")
            /\ connectPromise' = [state |-> "pending", value |-> 0, reason |-> NoError]
            /\ cpc' = "await"
       ELSE /\ connectPromise' =
                   [state |-> "rejected", value |-> 0, reason |-> "ERR_INVALID_URL"]
            /\ cpc' = "rejected"
            /\ UNCHANGED <<created, transports, link>>
    /\ UNCHANGED <<lifecycle, callVars>>

\* The SDK client settles client.connect(transport). A transport that close()
\* has closed during the handshake cannot complete it.
HandshakeSettles ==
    /\ cpc = "await"
    /\ \E outcome \in
             (IF link[transport] = "connecting" THEN {"ok"} ELSE {}) \cup TransportErrors :
          /\ handshake' = outcome
          /\ link' = IF link[transport] = "connecting"
                     THEN [link EXCEPT ![transport] =
                              IF outcome = "ok" THEN "open" ELSE "failed"]
                     ELSE link
    /\ cpc' = "resume"
    /\ UNCHANGED <<transports, created, lifecycle, sseUrl, connectPromise, callVars>>

\* A slip: connect returns the first transport of the collection.
ConnectReturns_First ==
    /\ cpc = "resume"
    /\ handshake = "ok"
    /\ connectPromise' = [state |-> "resolved", value |-> transports[1], reason |-> NoError]
    /\ lifecycle' = "Connected"
    /\ cpc' = "resolved"
    /\ UNCHANGED <<transports, created, link, sseUrl, handshake, callVars>>

\* return transport
ConnectReturns ==
    /\ cpc = "resume"
    /\ handshake = "ok"
    /\ connectPromise' = [state |-> "resolved", value |-> transport, reason |-> NoError]
    /\ lifecycle' = "Connected"
    /\ cpc' = "resolved"
    /\ UNCHANGED <<transports, created, link, sseUrl, handshake, callVars>>

\* await this.client.connect(transport) throws.
ConnectThrows ==
    /\ cpc = "resume"
    /\ handshake \in TransportErrors
    /\ connectPromise' = [state |-> "rejected", value |-> 0, reason |-> handshake]
    /\ cpc' = "rejected"
    /\ UNCHANGED <<transports, created, link, lifecycle, sseUrl, handshake, callVars>>

\* -------------------------------------------------------------------- close

\* transport.close() on the i-th transport of this.transports.
TransportClose(i) == Delegated(transports[i], "close", {}, Undefined, None)

\* The transports whose close() the close call has invoked, in order.
closed == [k \in 1..Len(requests) |-> requests[k].target]

\* close(), up to its first await; with no transport the loop body never runs.
Close ==
    /\ IF transports # <<>>
       THEN /\ Begin(Call("close", Undefined, Undefined, None), TransportClose(1))
            /\ UNCHANGED lifecycle
       ELSE /\ CallerReady
            /\ call' = Call("close", Undefined, Undefined, None)
            /\ requests' = <<>>
            /\ responses' = <<>>
            /\ promise' = Resolved(Undefined)
            /\ pc' = "resolved"
            /\ lifecycle' = "Closed"
            /\ allItems' = <<>>
            /\ cursor' = Undefined
            /\ inbound' = <<>>
            /\ emitted' = <<>>
    /\ NoFetch
    /\ UNCHANGED <<transports, created, link, connectVars>>

\* The transport settles the awaited close().
TransportCloseSettles ==
    /\ call.op = "close"
    /\ pc = "await"
    /\ \E outcome \in {Result(Undefined)} \cup {Failure(e) : e \in TransportErrors} :
          /\ responses' = Append(responses, outcome)
          /\ link' = IF outcome.error = NoError
                     THEN [link EXCEPT ![requests[Len(requests)].target] = "closed"]
                     ELSE link
    /\ pc' = "resume"
    /\ UNCHANGED <<call, pages, requestParams, requestOptions, allItems, cursor,
                   requests, promise, inbound, emitted>>
    /\ UNCHANGED <<transports, created, lifecycle, connectVars>>

\* await transport.close() throws: the loop is left.
CloseThrows ==
    /\ call.op = "close"
    /\ pc = "resume"
    /\ LastResponse.error # NoError
    /\ promise' = Rejected(LastResponse.error)
    /\ pc' = "rejected"
    /\ UNCHANGED <<call, pages, requestParams, requestOptions, allItems, cursor,
                   requests, responses, inbound, emitted>>
    /\ UNCHANGED <<handleVars, connectVars>>

\* A slip: a completed close leaves the handle as new, Unconnected.
CloseContinues_Resets ==
    /\ call.op = "close"
    /\ pc = "resume"
    /\ LastResponse.error = NoError
    /\ IF Len(requests) < Len(transports)
       THEN /\ requests' = Append(requests, TransportClose(Len(requests) + 1))
            /\ pc' = "await"
            /\ UNCHANGED <<promise, lifecycle>>
       ELSE /\ promise' = Resolved(Undefined)
            /\ pc' = "resolved"
            /\ lifecycle' = "Unconnected"
            /\ UNCHANGED requests
    /\ UNCHANGED <<call, pages, requestParams, requestOptions, allItems, cursor,
                   responses, inbound, emitted>>
    /\ UNCHANGED <<transports, created, link, connectVars>>

\* The for...of loop goes to the next transport of this.transports, as long as
\* it now is, or ends.
CloseContinues ==
    /\ call.op = "close"
    /\ pc = "resume"
    /\ LastResponse.error = NoError
    /\ IF Len(requests) < Len(transports)
       THEN /\ requests' = Append(requests, TransportClose(Len(requests) + 1))
            /\ pc' = "await"
            /\ UNCHANGED <<promise, lifecycle>>
       ELSE /\ promise' = Resolved(Undefined)
            /\ pc' = "resolved"
            /\ lifecycle' = "Closed"
            /\ UNCHANGED requests
    /\ UNCHANGED <<call, pages, requestParams, requestOptions, allItems, cursor,
                   responses, inbound, emitted>>
    /\ UNCHANGED <<transports, created, link, connectVars>>

\* ---------------------------------------------------------- specifications

\* new MCPClient(clientInfo, options)
Init ==
    /\ transports = <<>>
    /\ created = 0
    /\ link = <<>>
    /\ lifecycle = "Unconnected"
    /\ cpc = "idle"
    /\ sseUrl = Undefined
    /\ handshake = "pending"
    /\ connectPromise = [state |-> "none", value |-> 0, reason |-> NoError]
    /\ call = [op |-> "none", arg |-> Undefined, resultSchema |-> Undefined,
               requestOptions |-> None, size |-> 0]
    /\ pc = "idle"
    /\ pages = <<>>
    /\ requestParams = [method |-> "", params |-> None]
    /\ requestOptions = None
    /\ allItems = <<>>
    /\ cursor = Undefined
    /\ requests = <<>>
    /\ responses = <<>>
    /\ promise = NoPromise
    /\ inbound = <<>>
    /\ emitted = <<>>

\* No facade call is in flight.
Quiet == ConnectReady /\ CallerReady

\* What the SDK client, the transports and the event loop do.
Progresses ==
    \/ RequestSettles
    \/ FetchThrows
    \/ FetchContinues
    \/ CallSettles
    \/ PingReturns
    \/ PingThrows
    \/ CallToolReturns
    \/ CallToolThrows
    \/ SetLoggingLevelReturns
    \/ SetLoggingLevelThrows
    \/ \E n \in ProgressMessages : ProgressArrives(n)
    \/ HandshakeSettles
    \/ ConnectReturns
    \/ ConnectThrows
    \/ TransportCloseSettles
    \/ CloseThrows
    \/ CloseContinues

\* A caller that awaits each facade call before it makes the next.
Calls ==
    /\ Quiet
    /\ \/ \E url \in SseUrls : Connect(url)
       \/ \E ro \in RequestOptionsChoices : Ping(ro)
       \/ \E ro \in RequestOptionsChoices, ps \in SessionPageSequences : GetTools(ro, ps)
       \/ \E name \in ToolNames, schema \in ResultSchemas, ro \in RequestOptionsChoices :
             CallTool(name, schema, ro)
       \/ \E level \in LoggingLevels : SetLoggingLevel(level)
       \/ Close

Next == Calls \/ Progresses

Spec == Init /\ [][Next]_vars

\* One paginated fetch against any server of at most MaxPages pages.
NextPages ==
    \/ pc = "idle" /\ \E ps \in PageSequences(MaxPages) : GetTools(None, ps)
    \/ RequestSettles
    \/ FetchThrows
    \/ FetchContinues

SpecPages == Init /\ [][NextPages]_vars

\* The event loop runs every continuation that is ready, and the SDK client
\* settles every request the server has a page for.
LiveSpecPages ==
    /\ SpecPages
    /\ WF_vars(RequestSettles)
    /\ WF_vars(FetchThrows)
    /\ WF_vars(FetchContinues)

\* connect and close calls, one of each at a time, interleaved at their awaits.
NextConn ==
    \/ \E url \in SseUrls : Connect(url)
    \/ HandshakeSettles
    \/ ConnectReturns
    \/ ConnectThrows
    \/ Close
    \/ TransportCloseSettles
    \/ CloseThrows
    \/ CloseContinues

SpecConn == Init /\ [][NextConn]_vars

\* ------------------------------------------------------- claims: the fetch

RECURSIVE ConcatTools(_)
\* The tools of a page sequence, in page order and in within-page order.
ConcatTools(ps) ==
    IF ps = <<>> THEN <<>> ELSE ps[1].tools \o ConcatTools(Tail(ps))

Settled == pc \in {"resolved", "rejected"}

\* Every page but the last returns a cursor (of any value, the empty string
\* included), and the last page returns none.
CursorsPresentThenAbsent ==
    /\ call.op = "getTools"
    /\ \A i \in 1..Len(pages) : pages[i].error = NoError
    /\ \A i \in 1..(Len(pages) - 1) : pages[i].nextCursor # Undefined
    /\ pages[Len(pages)].nextCursor = Undefined

\* Every page but the last returns a non-empty cursor, and the last page none.
CursorsNonEmptyThenAbsent ==
    /\ CursorsPresentThenAbsent
    /\ \A i \in 1..(Len(pages) - 1) : pages[i].nextCursor # ""

\* The fetch has issued no request the server has no page for, can only
\* resolve, and resolves with every page's tools after one request per page.
FetchesEveryPage ==
    /\ Len(requests) <= Len(pages)
    /\ pc # "rejected"
    /\ pc = "resolved" =>
          /\ promise = Resolved(ConcatTools(pages))
          /\ Len(requests) = Len(pages)

\* C1 as stated: against pages P1..Pn whose first n-1 return a present cursor
\* and whose last returns none, getTools resolves with the concatenation of the
\* n pages' tools, in order, after exactly n requests.
C1_AnyPresentCursor == CursorsPresentThenAbsent => FetchesEveryPage

\* C1, amended: against pages P1..Pn whose first n-1 return a present and
\* non-empty cursor and whose last returns none, getTools resolves with the
\* concatenation of the n pages' tools, in page order and in within-page order,
\* after exactly n requests (one request for n = 1).
C1_ConcatenatesAllPages == CursorsNonEmptyThenAbsent => FetchesEveryPage

C1_Witness ==
    /\ CursorsNonEmptyThenAbsent
    /\ pc = "resolved"
    /\ Len(pages) = 3
    /\ pages[1].tools = <<"add", "sub">>
    /\ pages[3].tools = <<"mul">>

\* C3: once the request for page k has failed, the fetch rejects with that very
\* error, page k's request is the last one issued, and nothing is resolved: the
\* tools of pages 1..k-1 are not returned.
C3_FailureIsAllOrNothing ==
    \A k \in 1..Len(responses) :
        responses[k].error # NoError =>
            /\ Len(requests) = k
            /\ promise.state # "resolved"
            /\ promise.value = <<>>
            /\ pc \in {"resume", "rejected"}
            /\ pc = "rejected" => promise = Rejected(responses[k].error)

C3_Witness ==
    /\ pc = "rejected"
    /\ Len(requests) = 3
    /\ allItems = <<"add", "sub", "mul">>
    /\ promise.reason = "RequestTimeout"

\* C9: the first request carries no cursor; a request is outstanding only once
\* every earlier one has been answered; request k+1 carries the base parameters
\* plus the cursor of response k; the base parameters stay as getTools passed them.
C9_SequentialCursorThreading ==
    /\ call.op = "getTools" =>
          /\ Len(requests) >= 1
          /\ "cursor" \notin Keys(requests[1].params)
          /\ requestParams = [method |-> "tools/list", params |-> None]
    /\ Len(requests) = Len(responses) + (IF pc = "await" THEN 1 ELSE 0)
    /\ \A k \in 1..(Len(requests) - 1) :
          /\ responses[k].error = NoError
          /\ requests[k + 1].method = requestParams.method
          /\ requests[k + 1].params = {<<"cursor", responses[k].nextCursor>>}

C9_Witness ==
    /\ Len(requests) = 3
    /\ requests[2].params = {<<"cursor", "c1">>}
    /\ requests[3].params = {<<"cursor", "c2">>}

\* The response of page k has been handled by the loop.
Handled(k) == k < Len(responses) \/ (k = Len(responses) /\ pc # "resume")

\* The loop stops at the first response without a usable cursor, and only there.
StopsAtFirstEmptyCursor ==
    /\ pc = "resolved" =>
          /\ ~Truthy(LastResponse.nextCursor)
          /\ \A k \in 1..(Len(responses) - 1) : Truthy(responses[k].nextCursor)
    /\ \A k \in 1..Len(responses) :
          (Handled(k) /\ responses[k].error = NoError) =>
              IF Truthy(responses[k].nextCursor)
              THEN Len(requests) >= k + 1 /\ ~(Settled /\ Len(responses) = k)
              ELSE pc = "resolved" /\ Len(requests) = k

\* The server returns a usable cursor on every page it has.
EndlessServer ==
    call.op = "getTools" /\ \A i \in 1..Len(pages) :
        pages[i].error = NoError /\ Truthy(pages[i].nextCursor)

\* C10: the loop stops after exactly the first response whose nextCursor is
\* absent or empty and goes on after any other response, whatever its items;
\* a fetch against a server that returns an absent or empty cursor on some page
\* settles, and a fetch against a server that never does is never settled,
\* however many pages it has served.
C10_StopsOnlyOnCursor ==
    /\ [](StopsAtFirstEmptyCursor /\ (EndlessServer => ~Settled))
    /\ (pc = "await" /\ ~EndlessServer) ~> Settled

C10_Witness ==
    /\ pc = "resolved"
    /\ Len(responses) = 3
    /\ responses[1].tools = <<>>
    /\ responses[2].tools = <<>>
    /\ responses[3].nextCursor = ""

\* ----------------------------------------------- claims: connect and close

\* C2: once a shutdown that followed every connect call has settled, every
\* transport ever created is in the tracked collection, and close() has been
\* invoked on each exactly once, in the order in which they were opened.
C2_ClosesEveryTransportOnce ==
    (call.op = "close" /\ pc \in {"resolved", "rejected"}
        /\ ConnectReady /\ call.size = Len(transports)) =>
        /\ transports = [i \in 1..created |-> i]
        /\ closed = transports

\* A connect call is made in this step.
ConnectCalled == ConnectReady /\ connectPromise' # connectPromise

\* connect settles as the handshake did: it returns the transport it created
\* and the handle is Connected, or it rejects with the handshake's error and
\* the handle stays as it was.
ConnectFollowsHandshake ==
    (cpc = "resume" /\ cpc' # "resume") =>
        /\ handshake = "ok" =>
              /\ connectPromise' =
                    [state |-> "resolved", value |-> created, reason |-> NoError]
              /\ lifecycle' = "Connected"
              /\ link[created] \in {"open", "closed"}
        /\ handshake # "ok" =>
              /\ connectPromise' =
                    [state |-> "rejected", value |-> 0, reason |-> handshake]
              /\ lifecycle' = lifecycle
        /\ UNCHANGED <<transports, created>>

CreatesAndRecordsTransport ==
    /\ created' = created + 1
    /\ transports' = Append(transports, created')
    /\ link' = Append(link, "connecting")
    /\ cpc' = "await"
    /\ connectPromise'.state = "pending"

\* C6 as stated: every connect call creates one new transport, records it and
\* performs the handshake, and settles as the handshake does.
C6_EveryConnectCreatesATransport ==
    [][/\ ConnectCalled => CreatesAndRecordsTransport
       /\ ConnectFollowsHandshake]_vars

\* C6, amended: a connect call whose sseUrl parses as a URL creates one new
\* transport, records it in the owned-transport collection and performs the
\* handshake; when the handshake succeeds the handle becomes Connected and
\* connect returns that same transport; when it fails connect rejects with the
\* handshake's error and the handle stays in the state it was in (Unconnected,
\* if it was). A connect call whose sseUrl does not parse rejects with the URL
\* constructor's error, creates and records no transport, performs no
\* handshake and leaves the handle as it was.
C6_ConnectCreatesRecordsAndSettles ==
    [][/\ (ConnectCalled /\ ParsesAsUrl(sseUrl')) => CreatesAndRecordsTransport
       /\ (ConnectCalled /\ ~ParsesAsUrl(sseUrl')) =>
             /\ connectPromise' =
                   [state |-> "rejected", value |-> 0, reason |-> "ERR_INVALID_URL"]
             /\ UNCHANGED handleVars
       /\ ConnectFollowsHandshake]_vars

C6_Witness ==
    /\ created = 2
    /\ transports = <<1, 2>>
    /\ link = <<"failed", "open">>
    /\ cpc = "resolved"
    /\ connectPromise.value = 2
    /\ lifecycle = "Connected"

OpenTransports(l) == {i \in 1..Len(l) : l[i] = "open"}

CloseIterating == call.op = "close" /\ pc \in {"await", "resume"}

\* The owned-transport collection changes only by a connect call appending
\* the transport it has just created.
OnlyConnectAppends ==
    transports' # transports =>
        /\ ConnectCalled
        /\ transports' = Append(transports, created')

\* C11: the owned-transport collection is changed only by connect, which
\* appends to it, and it is not changed while a close call is iterating it:
\* under every interleaving of connect and close calls at their awaits, no
\* connect appends a transport between the start and the end of a close.
C11_NoAppendDuringClose ==
    [][/\ OnlyConnectAppends
       /\ CloseIterating => transports' = transports]_vars

\* ------------------------------------------------ claims: the facade calls

\* The options object passed is the adaptation of the request options ro:
\* none when ro is absent, else one whose onprogress, signal and timeout are
\* ro's onProgress, signal and timeout, and that has no other field.
IsAdaptationOf(passed, ro) ==
    IF ro = None
    THEN passed = None
    ELSE /\ passed # None
         /\ Keys(TheValue(passed)) \subseteq {"onprogress", "signal", "timeout"}
         /\ Get(TheValue(passed), "onprogress") = Get(TheValue(ro), "onProgress")
         /\ Get(TheValue(passed), "signal") = Get(TheValue(ro), "signal")
         /\ Get(TheValue(passed), "timeout") = Get(TheValue(ro), "timeout")

\* C4: ping, getTools and callTool pass the SDK client the adapted options
\* {onprogress, signal, timeout} when request options are given, and no options
\* object when none are.
C4_PassesAdaptedOptions ==
    call.op \in {"ping", "getTools", "callTool"} =>
        \A k \in 1..Len(requests) :
            IsAdaptationOf(requests[k].options, call.requestOptions)

\* The event a progress notification is to be re-emitted as.
NotificationEvent(n) ==
    [progressToken |-> n.progressToken, progress |-> n.progress, total |-> n.total,
     type |-> "progress"]

\* C5: the handle has emitted exactly one "notification" event, of type
\* "progress", for each progress notification the SDK client has received, in
\* the order of their arrival.
C5_ReEmitsEachProgressInOrder ==
    /\ Len(emitted) = Len(inbound)
    /\ \A k \in 1..Len(inbound) : emitted[k] = NotificationEvent(inbound[k])

\* C8: a delegated call that failed is the last one its facade call issued,
\* and the facade call rejects with that very error; connect rejects with the
\* handshake's error; a call of an unknown tool rejects with MethodNotFound;
\* ping, callTool and setLoggingLevel issue exactly one delegated call.
C8_FailuresPropagateUnchanged ==
    /\ call.op \in {"ping", "callTool", "setLoggingLevel"} => Len(requests) = 1
    /\ \A k \in 1..Len(responses) :
          responses[k].error # NoError =>
              /\ k = Len(requests)
              /\ pc \in {"resume", "rejected"}
              /\ pc = "rejected" => promise = Rejected(responses[k].error)
    /\ promise.state = "rejected" =>
          /\ responses # <<>>
          /\ promise.reason = LastResponse.error
    /\ (cpc \in {"resume", "resolved", "rejected"} /\ handshake \in TransportErrors) =>
          /\ cpc \in {"resume", "rejected"}
          /\ cpc = "rejected" =>
                connectPromise = [state |-> "rejected", value |-> 0, reason |-> handshake]
    /\ (call.op = "callTool" /\ call.arg = "missing" /\ pc \in {"resolved", "rejected"}) =>
          promise = Rejected("MethodNotFound")

C8_Witness ==
    /\ call.op = "callTool"
    /\ call.arg = "missing"
    /\ pc = "rejected"
    /\ promise.reason = "MethodNotFound"
    /\ cpc = "rejected"
    /\ connectPromise.reason = "ECONNREFUSED"

====
